---- MODULE Spec2Model ----
(***************************************************************************)
(* Model of app/api/generate-questions/route.ts: the upload handler POST,  *)
(* the generation handler GET and the background relay that GET spawns to  *)
(* reformat the generation service's event sequence into server-sent       *)
(* events.                                                                 *)
(*                                                                         *)
(* Strings whose inside the code inspects (contents, file names, form      *)
(* keys, the uploadedFiles parameter) are sequences of atoms: an atom is   *)
(* one of the characters the code looks at, or a run of other text.        *)
(***************************************************************************)
EXTENDS Integers, Sequences, FiniteSets, TLC

\* ------------------------------------------------------------------ bounds
\* Most upstream events one relay consumes.
MaxEvents == 3
\* Longest uploadedFiles query parameter, in atoms.
MaxParamLen == 3
\* Most parts of one multipart upload.
MaxParts == 2
\* Largest reading of Date.now().
MaxClock == 2

\* ----------------------------------------------------------------- strings
\* One backtick character.
BT == "BACKTICK"
NL == "\n"

HasPrefix(s, p) == Len(s) >= Len(p) /\ SubSeq(s, 1, Len(p)) = p

\* The match of /BT BT BT (json)?\n/ at the start of s: its length, 0 for none.
OpenFenceLen(s) ==
  IF HasPrefix(s, <<BT, BT, BT, "j", "s", "o", "n", NL>>) THEN 8
  ELSE IF HasPrefix(s, <<BT, BT, BT, NL>>) THEN 4
  ELSE 0

RECURSIVE StripOpenFences(_)
\* s.replace(/BT BT BT (json)?\n/g, ""): every match, left to right, no rescan.
StripOpenFences(s) ==
  IF s = <<>> THEN <<>>
  ELSE IF OpenFenceLen(s) > 0
       THEN StripOpenFences(SubSeq(s, OpenFenceLen(s) + 1, Len(s)))
       ELSE <<Head(s)>> \o StripOpenFences(Tail(s))

\* s.replace(/BT BT BT $/g, ""): a fence at the very end of the string.
StripCloseFence(s) ==
  IF Len(s) >= 3 /\ SubSeq(s, Len(s) - 2, Len(s)) = <<BT, BT, BT>>
  THEN SubSeq(s, 1, Len(s) - 3)
  ELSE s

CleanContent(content) == StripCloseFence(StripOpenFences(content))

IsWhitespace(c) == c \in {" ", NL, "\t"}

RECURSIVE TrimStart(_)
TrimStart(s) ==
  IF s # <<>> /\ IsWhitespace(Head(s)) THEN TrimStart(Tail(s)) ELSE s

IsJsonContent(clean) ==
  TrimStart(clean) # <<>> /\ Head(TrimStart(clean)) \in {"{", "["}

RECURSIVE JsonEscape(_)
\* The inside of a JSON string literal: quotes, backslashes and newlines escaped.
JsonEscape(s) ==
  IF s = <<>> THEN <<>>
  ELSE (CASE Head(s) = NL -> <<"\\", "n">>
          [] Head(s) = "\"" -> <<"\\", "\"">>
          [] Head(s) = "\\" -> <<"\\", "\\">>
          [] OTHER -> <<Head(s)>>) \o JsonEscape(Tail(s))

JsonString(s) == <<"\"">> \o JsonEscape(s) \o <<"\"">>

RECURSIVE JsonMessages(_)
JsonMessages(ms) ==
  IF ms = <<>> THEN <<>>
  ELSE <<"{">> \o JsonString(<<"content">>) \o <<":">> \o JsonString(Head(ms))
       \o <<"}">> \o (IF Len(ms) > 1 THEN <<",">> ELSE <<>>)
       \o JsonMessages(Tail(ms))

\* ------------------------------------------------------------------ events
\* An upstream event {<agent>: {messages?: [{content}], analysisResult?}}.
Event(agent, hasMessages, messages, hasResult, analysisResult) ==
  [agent |-> agent, hasMessages |-> hasMessages, messages |-> messages,
   hasResult |-> hasResult, analysisResult |-> analysisResult]

\* JSON.stringify(event)
Stringify(event) ==
  <<"{">> \o JsonString(<<event.agent>>) \o <<":", "{">>
  \o (IF event.hasMessages
      THEN JsonString(<<"messages">>) \o <<":", "[">>
           \o JsonMessages(event.messages) \o <<"]">>
      ELSE <<>>)
  \o (IF event.hasMessages /\ event.hasResult THEN <<",">> ELSE <<>>)
  \o (IF event.hasResult
      THEN JsonString(<<"analysisResult">>) \o <<":">>
           \o JsonString(event.analysisResult)
      ELSE <<>>)
  \o <<"}", "}">>

\* A variant that takes analysisResult whenever the event has one.
ExtractContentResultFirst(event) ==
  IF event.hasResult /\ event.analysisResult # <<>>
  THEN event.analysisResult
  ELSE IF event.hasMessages /\ Len(event.messages) > 0 /\ event.messages[1] # <<>>
       THEN event.messages[1]
       ELSE Stringify(event)

\* The content of a Formatter event.
ExtractContent(event) ==
  IF event.hasMessages /\ Len(event.messages) > 0 /\ event.messages[1] # <<>>
  THEN IF event.hasResult /\ event.analysisResult # <<>>
       THEN event.analysisResult
       ELSE event.messages[1]
  ELSE Stringify(event)

\* A variant that lets every agent through.
IsFormatterAny(event) == TRUE

IsFormatter(event) == event.agent = "Formatter"

\* ------------------------------------------------------------------- paths
RECURSIVE SplitOn(_, _)
\* s.split(sep): the segments between the separators, empty ones included.
SplitOn(s, sep) ==
  IF \E i \in 1..Len(s) : s[i] = sep
  THEN LET k == CHOOSE i \in 1..Len(s) :
                  s[i] = sep /\ \A j \in 1..(i - 1) : s[j] # sep
       IN <<SubSeq(s, 1, k - 1)>> \o SplitOn(SubSeq(s, k + 1, Len(s)), sep)
  ELSE <<s>>

\* file.trim() === ""
IsBlank(s) == \A i \in 1..Len(s) : IsWhitespace(s[i])

\* A path is the sequence of its components below the root.
Cwd == << <<"cwd">> >>
\* path.join(process.cwd(), "temp")
TempDir == Cwd \o << <<"temp">> >>

RECURSIVE Normalize(_, _)
\* The components comps applied to the directory stack: "." and empty
\* components are dropped, ".." leaves the directory it is in.
Normalize(stack, comps) ==
  IF comps = <<>> THEN stack
  ELSE LET c == Head(comps) IN
       Normalize(IF c = <<>> \/ c = <<".">> THEN stack
                 ELSE IF c = <<"..">>
                      THEN (IF stack = <<>> THEN stack
                            ELSE SubSeq(stack, 1, Len(stack) - 1))
                      ELSE Append(stack, c),
                 Tail(comps))

\* path.join(dir, file)
PathJoin(dir, file) == Normalize(dir, SplitOn(file, "/"))

InScratch(path) == Len(path) = Len(TempDir) + 1 /\ HasPrefix(path, TempDir)

\* ------------------------------------------------------------------- state
Reqs == {1, 2}

VARIABLES
  files,          \* the regular files on disk: path -> bytes
  tempDirExists,  \* whether the scratch directory exists
  gpc,            \* GET r: "idle", "start", "awaiting", "returned"
  req,            \* GET r: the query parameters of the request
  uploadedFiles,  \* GET r: the local uploadedFiles
  call,           \* GET r: the arguments generateQuestions was called with
  result,         \* GET r: how the generation call came back
  response,       \* GET r: the response returned
  fsLog,          \* GET r: the paths it has tested, the paths it has called
                  \* unlink on, and those of them whose unlink threw
  conn,           \* GET r: the relay, its writer and the client of the stream
  ppc,            \* POST: "start", "parts", "returned"
  parts,          \* POST: the entries of the form not yet handled
  postFiles,      \* POST: the local uploadedFiles
  stored,         \* POST: for each entry of postFiles, the bytes of its part
  postResponse,   \* POST: the response returned
  now             \* the last reading of Date.now()

vars == <<files, tempDirExists, gpc, req, uploadedFiles, call, result, response,
          fsLog, conn, ppc, parts, postFiles, stored, postResponse, now>>
handlerVars == <<gpc, req, uploadedFiles, call, result, response, fsLog>>
getVars == <<handlerVars, conn>>
postVars == <<ppc, parts, postFiles, stored, postResponse, now>>

Dirs == {<<>>, Cwd} \cup (IF tempDirExists THEN {TempDir} ELSE {})

\* fs.existsSync(path)
ExistsSync(fs, path) == path \in DOMAIN fs \/ path \in Dirs

RemoveFile(fs, path) == [p \in DOMAIN fs \ {path} |-> fs[p]]

WriteFile(fs, path, bytes) ==
  [p \in DOMAIN fs \cup {path} |-> IF p = path THEN bytes ELSE fs[p]]

\* --------------------------------------------------------------- GET, start
\* url.searchParams.get(name) of a parameter that is absent.
Null == "null"
NullParam == <<Null>>

\* The truthiness of a string parameter, and of the uploadedFiles parameter.
Truthy(v) == v # Null /\ v # ""
TruthyParam(p) == p # NullParam /\ p # <<>>

NoCall == [issued |-> FALSE]
NoLog == [tested |-> {}, unlinked |-> {}, failed |-> {}]
NoResponse == [status |-> 0, kind |-> "none", message |-> ""]

\* A variant that reports a missing parameter only when all three are missing.
MissingRequiredAll(q) ==
  ~Truthy(q.questionHeader) /\ ~Truthy(q.questionDescription)
  /\ ~Truthy(q.apiKey)

MissingRequired(q) ==
  ~Truthy(q.questionHeader) \/ ~Truthy(q.questionDescription)
  \/ ~Truthy(q.apiKey)

DefaultModel == "qwen/qwq-32b:free"

ModelName(q) == IF Truthy(q.modelName) THEN q.modelName ELSE DefaultModel

MissingResponse(q) ==
  [status |-> 400, kind |-> "json",
   message |-> "Missing required parameters. Please provide questionHeader, questionDescription, and apiKey.",
   received |-> [questionHeader |-> Truthy(q.questionHeader),
                 questionDescription |-> Truthy(q.questionDescription),
                 apiKey |-> Truthy(q.apiKey),
                 modelName |-> Truthy(ModelName(q))]]

NotFoundResponse ==
  [status |-> 400, kind |-> "json",
   message |-> "Uploaded files not found on server. Please try uploading again."]

\* uploadedFilesParam.split(",").filter((file) => file.trim() !== "")
DeclaredFiles(q) ==
  IF TruthyParam(q.uploadedFiles)
  THEN SelectSeq(SplitOn(q.uploadedFiles, ","), LAMBDA f : ~IsBlank(f))
  ELSE <<>>

\* A variant that keeps every declared file.
ExistingFilesAll(fs, declared) == declared

ExistingFiles(fs, declared) ==
  SelectSeq(declared, LAMBDA f : ExistsSync(fs, PathJoin(TempDir, f)))

\* The paths the names of a list stand for.
Paths(list) == {PathJoin(TempDir, list[i]) : i \in 1..Len(list)}

\* GET up to its await of generateQuestions: validation, the file list, the
\* existence check and the call.
GetStart(r) ==
  /\ gpc[r] = "start"
  /\ LET q == req[r]
         declared == DeclaredFiles(q)
         existing == ExistingFiles(files, declared)
     IN IF MissingRequired(q)
        THEN /\ response' = [response EXCEPT ![r] = MissingResponse(q)]
             /\ gpc' = [gpc EXCEPT ![r] = "returned"]
             /\ UNCHANGED <<uploadedFiles, call, fsLog>>
        ELSE IF Len(declared) # 0 /\ Len(existing) = 0
        THEN /\ response' = [response EXCEPT ![r] = NotFoundResponse]
             /\ gpc' = [gpc EXCEPT ![r] = "returned"]
             /\ uploadedFiles' = [uploadedFiles EXCEPT ![r] = declared]
             /\ fsLog' = [fsLog EXCEPT ![r].tested = @ \cup Paths(declared)]
             /\ UNCHANGED call
        ELSE /\ uploadedFiles' = [uploadedFiles EXCEPT ![r] = existing]
             /\ fsLog' = [fsLog EXCEPT ![r].tested = @ \cup Paths(declared)]
             /\ call' = [call EXCEPT ![r] =
                           [issued |-> TRUE,
                            questionHeader |-> q.questionHeader,
                            questionDescription |-> q.questionDescription,
                            apiKey |-> q.apiKey,
                            uploadedFiles |-> existing,
                            modelName |-> ModelName(q)]]
             /\ gpc' = [gpc EXCEPT ![r] = "awaiting"]
             /\ UNCHANGED response
  /\ UNCHANGED <<files, tempDirExists, req, result, conn>>
  /\ UNCHANGED postVars

\* ------------------------------------------------------------ the relay
\* What the relay hands to the writer: an outbound chunk, or the close.
Markdown(content) == [ev |-> "message", type |-> "markdown", content |-> content]
BusyText == <<"server is busy currently try again later">>
Busy == [ev |-> "message", type |-> "error", content |-> BusyText]
CompleteMarker == [ev |-> "complete", type |-> "", content |-> <<"done">>]
ErrorEvent(message) == [ev |-> "error", type |-> "", content |-> <<message>>]
CloseOp == [ev |-> "close", type |-> "", content |-> <<>>]

\* What an awaited call can reject with: an Error, or a value that is none.
Thrown == {[isError |-> TRUE, message |-> "upstream failed"],
           [isError |-> FALSE, message |-> ""]}
\* What a write or close on an errored writer rejects with.
WriterError == [isError |-> TRUE, message |-> "stream errored"]

\* error instanceof Error ? error.message : "An unknown error occurred"
ErrorMessage(err) ==
  IF err.isError THEN err.message ELSE "An unknown error occurred"

\* error.message || fallback
MessageOr(err, fallback) ==
  IF err.isError /\ err.message # "" THEN err.message ELSE fallback

NoConn ==
  [rpc |-> "none", phase |-> "try", after |-> "loop", todo |-> <<>>,
   out |-> <<>>, nread |-> 0, writer |-> "open", client |-> "reading",
   consumed |-> <<>>, upstream |-> "open"]

\* The relay as GET starts it: the writer open, the loop awaiting the first
\* upstream event.
NewConn == [NoConn EXCEPT !.rpc = "next"]

\* A variant that leaves the completion marker out.
ShortCircuitNoMarker(c) ==
  [c EXCEPT !.rpc = "io", !.after = "return", !.todo = <<Busy, CloseOp>>]

\* A variant that sends the busy message and goes on with the loop.
ShortCircuitGoesOn(c) ==
  [c EXCEPT !.rpc = "io", !.after = "loop", !.todo = <<Busy>>]

\* The JSON-shaped branch: the busy message, the completion marker, the close,
\* then the return.
ShortCircuit(c) ==
  [c EXCEPT !.rpc = "io", !.after = "return",
            !.todo = <<Busy, CompleteMarker, CloseOp>>]

\* A variant that leaves the writer open after the completion marker.
CompleteNoClose(c) ==
  [c EXCEPT !.rpc = "io", !.after = "return", !.todo = <<CompleteMarker>>]

\* After the loop: the completion marker and the close.
Complete(c) ==
  [c EXCEPT !.rpc = "io", !.after = "return",
            !.todo = <<CompleteMarker, CloseOp>>]

\* The catch block: the error event and the close.
Catch(c, err) ==
  [c EXCEPT !.rpc = "io", !.phase = "catch", !.after = "return",
            !.todo = <<ErrorEvent(ErrorMessage(err)), CloseOp>>]

\* A variant that sends the raw content.
ProcessNoClean(c, event) ==
  IF IsJsonContent(ExtractContent(event))
  THEN ShortCircuit(c)
  ELSE [c EXCEPT !.rpc = "io", !.after = "loop",
                 !.todo = <<Markdown(ExtractContent(event))>>]

\* The body of the loop for one Formatter event.
Process(c, event) ==
  IF IsJsonContent(CleanContent(ExtractContent(event)))
  THEN ShortCircuit(c)
  ELSE [c EXCEPT !.rpc = "io", !.after = "loop",
                 !.todo = <<Markdown(CleanContent(ExtractContent(event)))>>]

\* The contents and the events the upstream sequence draws from.
Q1 == <<"Q1">>
Q2 == <<"Q2">>
FencedJson == <<BT, BT, BT, "j", "s", "o", "n", NL, "{", "x", "}", NL, BT, BT, BT>>
FencedText == <<BT, BT, BT, NL, "Q3", NL, BT, BT, BT>>
IndentedJson == <<" ", NL, "[", "1", "]">>
JsonResult == <<"{", "r", "}">>

Events ==
  {Event("Researcher", TRUE, <<Q1>>, FALSE, <<>>),
   Event("Researcher", TRUE, <<FencedJson>>, FALSE, <<>>)}
  \cup {Event("Formatter", TRUE, <<c>>, FALSE, <<>>) :
          c \in {Q1, Q2, FencedJson, FencedText, IndentedJson, <<>>}}
  \cup {Event("Formatter", FALSE, <<>>, TRUE, Q2),
        Event("Formatter", TRUE, <<Q1>>, TRUE, Q2),
        Event("Formatter", TRUE, <<Q1, Q2>>, TRUE, JsonResult)}

\* The upstream sequence yields an event.
RelayEvent(r) ==
  /\ conn[r].rpc = "next"
  /\ Len(conn[r].consumed) < MaxEvents
  /\ \E event \in Events :
       LET c == [conn[r] EXCEPT !.consumed = Append(@, event)] IN
       conn' = [conn EXCEPT ![r] = IF IsFormatter(event) THEN Process(c, event)
                                   ELSE c]
  /\ UNCHANGED <<files, tempDirExists, handlerVars>>
  /\ UNCHANGED postVars

\* The upstream sequence is exhausted.
RelayEnd(r) ==
  /\ conn[r].rpc = "next"
  /\ conn' = [conn EXCEPT ![r] = Complete([conn[r] EXCEPT !.upstream = "ended"])]
  /\ UNCHANGED <<files, tempDirExists, handlerVars>>
  /\ UNCHANGED postVars

\* The upstream sequence throws.
RelayThrow(r) ==
  /\ conn[r].rpc = "next"
  /\ \E err \in Thrown :
       conn' = [conn EXCEPT ![r] =
                  Catch([conn[r] EXCEPT !.upstream = "threw"], err)]
  /\ UNCHANGED <<files, tempDirExists, handlerVars>>
  /\ UNCHANGED postVars

\* Where the relay is once the operations of todo are done.
Advance(c, todo) ==
  [c EXCEPT !.todo = todo,
            !.rpc = IF todo # <<>> THEN "io"
                    ELSE IF c.after = "loop" THEN "next" ELSE "done"]

\* An awaited writer.write or writer.close resolves. A write resolves once
\* the client has read what was written before it.
RelayIo(r) ==
  /\ conn[r].rpc = "io"
  /\ conn[r].writer = "open"
  /\ LET c == conn[r]
         op == Head(c.todo)
     IN IF op = CloseOp
        THEN conn' = [conn EXCEPT ![r] =
                        Advance([c EXCEPT !.writer = "closed"], Tail(c.todo))]
        ELSE /\ Len(c.out) = c.nread
             /\ conn' = [conn EXCEPT ![r] =
                           Advance([c EXCEPT !.out = Append(@, op)], Tail(c.todo))]
  /\ UNCHANGED <<files, tempDirExists, handlerVars>>
  /\ UNCHANGED postVars

\* An awaited writer.write or writer.close rejects: in the try block the catch
\* block takes over, in the catch block the task ends with the rejection.
RelayIoFail(r) ==
  /\ conn[r].rpc = "io"
  /\ conn[r].writer # "open"
  /\ conn' = [conn EXCEPT ![r] =
                IF conn[r].phase = "try" THEN Catch(conn[r], WriterError)
                ELSE [conn[r] EXCEPT !.rpc = "crashed", !.todo = <<>>]]
  /\ UNCHANGED <<files, tempDirExists, handlerVars>>
  /\ UNCHANGED postVars

\* The client reads the next chunk of the response body.
ClientRead(r) ==
  /\ conn[r].rpc # "none"
  /\ conn[r].client = "reading"
  /\ conn[r].nread < Len(conn[r].out)
  /\ conn' = [conn EXCEPT ![r].nread = @ + 1]
  /\ UNCHANGED <<files, tempDirExists, handlerVars>>
  /\ UNCHANGED postVars

\* A variant in which the relay is told of the disconnect and stops.
ClientDisconnectStopsRelay(r) ==
  /\ conn[r].rpc # "none"
  /\ conn[r].client = "reading"
  /\ conn' = [conn EXCEPT ![r].client = "gone",
                          ![r].writer = IF @ = "open" THEN "errored" ELSE @,
                          ![r].rpc = "done",
                          ![r].todo = <<>>]
  /\ UNCHANGED <<files, tempDirExists, handlerVars>>
  /\ UNCHANGED postVars

\* The client goes away: the readable side is cancelled, which errors a
\* writer that is still open.
ClientDisconnect(r) ==
  /\ conn[r].rpc # "none"
  /\ conn[r].client = "reading"
  /\ conn' = [conn EXCEPT ![r].client = "gone",
                          ![r].writer = IF @ = "open" THEN "errored" ELSE @]
  /\ UNCHANGED <<files, tempDirExists, handlerVars>>
  /\ UNCHANGED postVars

\* ------------------------------------------------------- GET, after the call
RECURSIVE CleanupFrom(_, _, _, _)
\* The cleanup loop from the i-th file on: a file that exists is unlinked; an
\* unlink that throws (the files of failing, and every directory) is caught.
CleanupFrom(i, list, fs, failing) ==
  IF i > Len(list) THEN fs
  ELSE LET path == PathJoin(TempDir, list[i]) IN
       CleanupFrom(i + 1, list,
                   IF path \in DOMAIN fs /\ i \notin failing
                   THEN RemoveFile(fs, path) ELSE fs,
                   failing)

\* A variant whose loop is left at the first unlink that throws.
CleanupStopAtFailure(list, fs, failing) ==
  LET stop == {i \in 1..Len(list) :
                 /\ ExistsSync(fs, PathJoin(TempDir, list[i]))
                 /\ (i \in failing \/ PathJoin(TempDir, list[i]) \notin DOMAIN fs)}
      upto == IF stop = {} THEN Len(list)
              ELSE CHOOSE i \in stop : \A j \in stop : i <= j
  IN CleanupFrom(1, SubSeq(list, 1, upto), fs, failing)

Cleanup(list, fs, failing) == CleanupFrom(1, list, fs, failing)

RECURSIVE CleanupFailedFrom(_, _, _, _)
\* The paths whose unlink threw in the cleanup loop from the i-th file on.
CleanupFailedFrom(i, list, fs, failing) ==
  IF i > Len(list) THEN {}
  ELSE LET path == PathJoin(TempDir, list[i])
           throws == ExistsSync(fs, path)
                     /\ (i \in failing \/ path \notin DOMAIN fs)
       IN (IF throws THEN {path} ELSE {})
          \cup CleanupFailedFrom(i + 1, list,
                                 IF path \in DOMAIN fs /\ i \notin failing
                                 THEN RemoveFile(fs, path) ELSE fs,
                                 failing)

CleanupFailed(list, fs, failing) == CleanupFailedFrom(1, list, fs, failing)

StreamResponse == [status |-> 200, kind |-> "sse", message |-> ""]
\* A variant that leaves the status at its default.
NoStreamResponseOk ==
  [status |-> 200, kind |-> "json",
   message |-> "No stream returned from generation service"]

NoStreamResponse ==
  [status |-> 500, kind |-> "json",
   message |-> "No stream returned from generation service"]
RejectedResponse(err) ==
  [status |-> 500, kind |-> "json",
   message |-> MessageOr(err, "Failed to generate questions")]

\* generateQuestions rejects: the outer catch answers.
GetReject(r) ==
  /\ gpc[r] = "awaiting"
  /\ \E err \in Thrown :
       response' = [response EXCEPT ![r] = RejectedResponse(err)]
  /\ result' = [result EXCEPT ![r] = "rejected"]
  /\ gpc' = [gpc EXCEPT ![r] = "returned"]
  /\ UNCHANGED <<files, tempDirExists, req, uploadedFiles, call, fsLog, conn>>
  /\ UNCHANGED postVars

\* A variant of GetResult that awaits the relay before it returns the event
\* stream.
GetResultAwaitingRelay(r) ==
  /\ gpc[r] = "awaiting"
  /\ \E failing \in SUBSET (1..Len(uploadedFiles[r])) :
       /\ files' = Cleanup(uploadedFiles[r], files, failing)
       /\ fsLog' = [fsLog EXCEPT
                      ![r].tested = @ \cup Paths(uploadedFiles[r]),
                      ![r].unlinked = @ \cup {p \in Paths(uploadedFiles[r]) :
                                                ExistsSync(files, p)},
                      ![r].failed = @ \cup CleanupFailed(uploadedFiles[r],
                                                         files, failing)]
  /\ \E stream \in BOOLEAN :
       /\ result' = [result EXCEPT ![r] = IF stream THEN "stream" ELSE "nostream"]
       /\ IF stream
          THEN /\ conn' = [conn EXCEPT ![r] = NewConn]
               /\ gpc' = [gpc EXCEPT ![r] = "relaying"]
               /\ UNCHANGED response
          ELSE /\ response' = [response EXCEPT ![r] = NoStreamResponse]
               /\ gpc' = [gpc EXCEPT ![r] = "returned"]
               /\ UNCHANGED conn
  /\ UNCHANGED <<tempDirExists, req, uploadedFiles, call>>
  /\ UNCHANGED postVars

\* generateQuestions resolves, with a stream or without: the cleanup loop,
\* then the relay is started and the event stream returned, or the 500.
GetResult(r) ==
  /\ gpc[r] = "awaiting"
  /\ \E failing \in SUBSET (1..Len(uploadedFiles[r])) :
       /\ files' = Cleanup(uploadedFiles[r], files, failing)
       /\ fsLog' = [fsLog EXCEPT
                      ![r].tested = @ \cup Paths(uploadedFiles[r]),
                      ![r].unlinked = @ \cup {p \in Paths(uploadedFiles[r]) :
                                                ExistsSync(files, p)},
                      ![r].failed = @ \cup CleanupFailed(uploadedFiles[r],
                                                         files, failing)]
  /\ \E stream \in BOOLEAN :
       /\ result' = [result EXCEPT ![r] = IF stream THEN "stream" ELSE "nostream"]
       /\ IF stream
          THEN /\ conn' = [conn EXCEPT ![r] = NewConn]
               /\ response' = [response EXCEPT ![r] = StreamResponse]
          ELSE /\ response' = [response EXCEPT ![r] = NoStreamResponse]
               /\ UNCHANGED conn
  /\ gpc' = [gpc EXCEPT ![r] = "returned"]
  /\ UNCHANGED <<tempDirExists, req, uploadedFiles, call>>
  /\ UNCHANGED postVars

\* --------------------------------------------------------------------- POST
\* An entry of the form: its field name, whether its value is a File, the
\* file's name and bytes.
Part(key, isFile, name, bytes) ==
  [key |-> key, isFile |-> isFile, name |-> name, bytes |-> bytes]

\* key.startsWith("file-") && value instanceof File
IsUpload(part) == HasPrefix(part.key, <<"file-">>) /\ part.isFile

\* path.extname(name): from the last dot on, unless there is none or it is
\* the first character.
ExtName(name) ==
  LET dots == {i \in 1..Len(name) : name[i] = "."} IN
  IF dots = {} THEN <<>>
  ELSE LET last == CHOOSE i \in dots : \A j \in dots : j <= i IN
       IF last = 1 THEN <<>> ELSE SubSeq(name, last, Len(name))

\* `${timestamp}${ext}`
FileName(timestamp, name) == <<ToString(timestamp)>> \o ExtName(name)

PostSuccess(names) ==
  [status |-> 200, message |-> "success", uploadedFiles |-> names]
PostFailure(err) ==
  [status |-> 500, message |-> MessageOr(err, "Failed to process request"),
   uploadedFiles |-> <<>>]

\* One turn of the loop over the entries of the form: a File under a "file-"
\* key is written to the scratch directory under a name made of the clock's
\* reading and the extension.
PostEntry ==
  /\ ppc = "parts"
  /\ parts # <<>>
  /\ LET part == Head(parts) IN
     IF IsUpload(part)
     THEN \E t \in now..MaxClock :
            /\ now' = t
            /\ tempDirExists' = TRUE
            /\ files' = WriteFile(files, Append(TempDir, FileName(t, part.name)),
                                  part.bytes)
            /\ postFiles' = Append(postFiles, FileName(t, part.name))
            /\ stored' = Append(stored, part.bytes)
     ELSE UNCHANGED <<now, tempDirExists, files, postFiles, stored>>
  /\ parts' = Tail(parts)
  /\ UNCHANGED <<ppc, postResponse>>
  /\ UNCHANGED getVars

\* The form is read through: the 200 with the names.
PostReturn ==
  /\ ppc = "parts"
  /\ parts = <<>>
  /\ postResponse' = PostSuccess(postFiles)
  /\ ppc' = "returned"
  /\ UNCHANGED <<files, tempDirExists, parts, postFiles, stored, now>>
  /\ UNCHANGED getVars

\* Reading the form or writing a file throws: the catch answers 500.
PostFail ==
  /\ ppc = "parts"
  /\ \E err \in Thrown : postResponse' = PostFailure(err)
  /\ ppc' = "returned"
  /\ UNCHANGED <<files, tempDirExists, parts, postFiles, stored, now>>
  /\ UNCHANGED getVars

\* ----------------------------------------------------------- specifications
ParamValues == {Null, "", "v"}
ParamAtoms == {",", " ", "/", "..", "a", "b"}
FileParams ==
  {NullParam} \cup UNION {[1..n -> ParamAtoms] : n \in 0..MaxParamLen}

Requests(fileParams) ==
  [questionHeader : ParamValues, questionDescription : ParamValues,
   apiKey : ParamValues, modelName : {Null, "m"}, uploadedFiles : fileParams]

NoRequest ==
  [questionHeader |-> Null, questionDescription |-> Null, apiKey |-> Null,
   modelName |-> Null, uploadedFiles |-> NullParam]

ScratchA == Append(TempDir, <<"a">>)
ScratchB == Append(TempDir, <<"b">>)
OutsideA == Append(Cwd, <<"a">>)

Disk(paths) == [p \in paths |-> "x"]

\* One GET request, request 1, of the given requests over the given disks.
InitGetWith(requests, disks) ==
  /\ files \in disks
  /\ tempDirExists \in {b \in BOOLEAN : b \/ \A p \in DOMAIN files : ~InScratch(p)}
  /\ req \in {[r \in Reqs |-> IF r = 1 THEN q ELSE NoRequest] : q \in requests}
  /\ gpc = [r \in Reqs |-> IF r = 1 THEN "start" ELSE "idle"]
  /\ uploadedFiles = [r \in Reqs |-> <<>>]
  /\ call = [r \in Reqs |-> NoCall]
  /\ result = [r \in Reqs |-> "pending"]
  /\ response = [r \in Reqs |-> NoResponse]
  /\ fsLog = [r \in Reqs |-> NoLog]
  /\ conn = [r \in Reqs |-> NoConn]
  /\ ppc = "idle"
  /\ parts = <<>>
  /\ postFiles = <<>>
  /\ stored = <<>>
  /\ postResponse = NoResponse
  /\ now = 1

\* The GET handler over every request and disk.
InitGet ==
  InitGetWith(Requests(FileParams),
              {Disk(s) : s \in {{}, {ScratchA}, {ScratchA, ScratchB}, {OutsideA},
                                 {ScratchB, OutsideA}}})

NextGet == \E r \in Reqs : GetStart(r) \/ GetReject(r) \/ GetResult(r)

SpecGet == InitGet /\ [][NextGet]_vars

\* The GET handler and its relay over a few requests.
RelayRequests ==
  {[questionHeader |-> "v", questionDescription |-> "v", apiKey |-> k,
    modelName |-> Null, uploadedFiles |-> f] :
     k \in {Null, "v"}, f \in {<<"a">>, <<"b">>}}

InitRelay == InitGetWith(RelayRequests, {Disk({ScratchA})})

NextRelay ==
  \E r \in Reqs :
    \/ GetStart(r) \/ GetReject(r) \/ GetResult(r)
    \/ RelayEvent(r) \/ RelayEnd(r) \/ RelayThrow(r)
    \/ RelayIo(r) \/ RelayIoFail(r)
    \/ ClientRead(r) \/ ClientDisconnect(r)

SpecRelay == InitRelay /\ [][NextRelay]_vars

\* The GET handler and its relay with a client that stays: it never goes
\* away, so no write or close is rejected.
NextRelayReading ==
  \E r \in Reqs :
    \/ GetStart(r) \/ GetReject(r) \/ GetResult(r)
    \/ RelayEvent(r) \/ RelayEnd(r) \/ RelayThrow(r)
    \/ RelayIo(r)
    \/ ClientRead(r)

\* The scheduling of the event loop: an awaited write or close that can
\* settle does settle, a finite upstream sequence that is awaited does not
\* stay silent for ever (it yields, and in the end it ends or throws), and
\* the client reads what is written.
RelayFairness ==
  \A r \in Reqs :
    /\ WF_vars(RelayIo(r))
    /\ WF_vars(RelayEnd(r) \/ RelayThrow(r))
    /\ WF_vars(ClientRead(r))

SpecRelayFair == InitRelay /\ [][NextRelayReading]_vars /\ RelayFairness

\* The POST handler over every form.
Key0 == <<"file-", "0">>
Key1 == <<"file-", "1">>
PartValues ==
  {Part(Key0, TRUE, <<"a", ".", "pdf">>, "X"),
   Part(Key1, TRUE, <<"b", ".", "pdf">>, "Y"),
   Part(Key1, TRUE, <<"notes">>, "Y"),
   Part(Key0, TRUE, <<".", "env">>, "X"),
   Part(Key0, TRUE, <<"a", ".", "tar", ".", "gz">>, "X"),
   Part(<<"doc">>, TRUE, <<"a", ".", "pdf">>, "X"),
   Part(<<"my", "file-">>, TRUE, <<"a", ".", "pdf">>, "Y"),
   Part(Key1, FALSE, <<>>, "text")}

Forms == UNION {[1..n -> PartValues] : n \in 0..MaxParts}

InitUpload ==
  /\ tempDirExists \in BOOLEAN
  /\ files \in {Disk({})} \cup
       (IF tempDirExists THEN {Disk({Append(TempDir, <<"1", ".", "pdf">>)})}
        ELSE {})
  /\ req = [r \in Reqs |-> NoRequest]
  /\ gpc = [r \in Reqs |-> "idle"]
  /\ uploadedFiles = [r \in Reqs |-> <<>>]
  /\ call = [r \in Reqs |-> NoCall]
  /\ result = [r \in Reqs |-> "pending"]
  /\ response = [r \in Reqs |-> NoResponse]
  /\ fsLog = [r \in Reqs |-> NoLog]
  /\ conn = [r \in Reqs |-> NoConn]
  /\ ppc = "parts"
  /\ parts \in Forms
  /\ postFiles = <<>>
  /\ stored = <<>>
  /\ postResponse = NoResponse
  /\ now = 1

NextUpload == PostEntry \/ PostReturn \/ PostFail

SpecUpload == InitUpload /\ [][NextUpload]_vars

\* Two GET requests and one upload at once on the same scratch directory.
ConcRequests ==
  {[questionHeader |-> "v", questionDescription |-> "v", apiKey |-> "v",
    modelName |-> Null, uploadedFiles |-> f] :
     f \in {<<"a">>, <<"a", ",", "b">>, <<"1", ".", "pdf">>}}

ConcForms == {<<>>, <<Part(Key0, TRUE, <<"a", ".", "pdf">>, "Y")>>}

InitConc ==
  /\ files \in {Disk({ScratchA}), Disk({ScratchA, ScratchB})}
  /\ tempDirExists = TRUE
  /\ req \in [Reqs -> ConcRequests]
  /\ gpc = [r \in Reqs |-> "start"]
  /\ uploadedFiles = [r \in Reqs |-> <<>>]
  /\ call = [r \in Reqs |-> NoCall]
  /\ result = [r \in Reqs |-> "pending"]
  /\ response = [r \in Reqs |-> NoResponse]
  /\ fsLog = [r \in Reqs |-> NoLog]
  /\ conn = [r \in Reqs |-> NoConn]
  /\ ppc = "parts"
  /\ parts \in ConcForms
  /\ postFiles = <<>>
  /\ stored = <<>>
  /\ postResponse = NoResponse
  /\ now = 1

NextConc ==
  \/ \E r \in Reqs : GetStart(r) \/ GetReject(r) \/ GetResult(r)
  \/ PostEntry \/ PostReturn \/ PostFail

SpecConc == InitConc /\ [][NextConc]_vars

\* ------------------------------------------------------------------ claims
IsPrefix(s, t) == Len(s) <= Len(t) /\ SubSeq(t, 1, Len(s)) = s

Last(s) == s[Len(s)]

\* A Formatter event whose cleaned content is JSON-shaped.
JsonShaped(event) ==
  event.agent = "Formatter" /\ IsJsonContent(CleanContent(ExtractContent(event)))

RECURSIVE MarkdownOf(_)
\* One markdown message for each Formatter event of events, in their order.
MarkdownOf(events) ==
  IF events = <<>> THEN <<>>
  ELSE (IF Head(events).agent = "Formatter"
        THEN <<Markdown(CleanContent(ExtractContent(Head(events))))>>
        ELSE <<>>) \o MarkdownOf(Tail(events))

\* C1: whichever way the relay ends, the completion marker is the last thing
\* written before the connection is closed.
C1_MarkerBeforeClose ==
  \A r \in Reqs :
    conn[r].writer = "closed" =>
      conn[r].out # <<>> /\ Last(conn[r].out) = CompleteMarker

\* C2: once a JSON-shaped Formatter event is consumed, no further upstream
\* event is consumed, nothing is written but the busy message and then the
\* completion marker, and the relay ends with both written and the writer
\* closed.
C2_ShortCircuit ==
  \A r \in Reqs :
    LET c == conn[r]
        n == Len(c.consumed)
        expected == MarkdownOf(SubSeq(c.consumed, 1, n - 1))
                      \o <<Busy, CompleteMarker>>
    IN /\ \A i \in 1..n : JsonShaped(c.consumed[i]) => i = n
       /\ (n > 0 /\ JsonShaped(c.consumed[n])) =>
            /\ c.upstream = "open"
            /\ c.rpc # "next"
            /\ IsPrefix(c.out, expected)
            /\ (c.rpc = "done" \/ c.writer = "closed") =>
                 c.out = expected /\ c.writer = "closed" /\ c.rpc = "done"
            /\ c.client = "reading" => c.rpc \in {"io", "done"} /\ c.phase = "try"

C2_Witness ==
  \E r \in Reqs :
    /\ Len(conn[r].consumed) = 2
    /\ JsonShaped(conn[r].consumed[2])
    /\ conn[r].consumed[1].agent = "Formatter"
    /\ conn[r].rpc = "done"
    /\ conn[r].writer = "closed"
    /\ Len(conn[r].out) = 3

\* C3: when no consumed Formatter event is JSON-shaped and the upstream
\* sequence has not thrown, what is written is the cleaned content of each
\* Formatter event, one markdown message each, in the order consumed, each
\* written before the next event is consumed, and then the completion marker.
C3_MarkdownInOrder ==
  \A r \in Reqs :
    LET c == conn[r] IN
    ((\A i \in 1..Len(c.consumed) : ~JsonShaped(c.consumed[i]))
       /\ c.upstream # "threw") =>
      /\ IsPrefix(SelectSeq(c.out, LAMBDA m : m.type = "markdown"),
                  MarkdownOf(c.consumed))
      /\ c.rpc = "next" => c.out = MarkdownOf(c.consumed)
      /\ c.rpc = "done" =>
           c.out = MarkdownOf(c.consumed) \o <<CompleteMarker>>
      /\ (c.upstream = "ended" /\ c.client = "reading") =>
           /\ c.rpc \in {"io", "done"}
           /\ IsPrefix(c.out, MarkdownOf(c.consumed) \o <<CompleteMarker>>)

C3_Witness ==
  \E r \in Reqs :
    /\ conn[r].rpc = "done"
    /\ conn[r].upstream = "ended"
    /\ Len(conn[r].consumed) = 3
    /\ conn[r].out = <<Markdown(<<"Q3", NL>>), Markdown(Q2), CompleteMarker>>

RECURSIVE Emitted(_)
\* What the relay writes for a sequence of events taken as they come, none
\* skipped, up to the first JSON-shaped one.
Emitted(events) ==
  IF events = <<>> THEN <<>>
  ELSE IF IsJsonContent(CleanContent(ExtractContent(Head(events))))
       THEN <<Busy, CompleteMarker>>
       ELSE <<Markdown(CleanContent(ExtractContent(Head(events))))>>
            \o Emitted(Tail(events))

\* What the relay writes in all for a sequence of events and the way the
\* sequence ends.
EmittedInAll(events, upstream) ==
  IF \E i \in 1..Len(events) :
       IsJsonContent(CleanContent(ExtractContent(events[i])))
  THEN {Emitted(events)}
  ELSE IF upstream = "threw"
       THEN {Emitted(events) \o <<ErrorEvent(ErrorMessage(err))>> : err \in Thrown}
       ELSE {Emitted(events) \o <<CompleteMarker>>}

FormatterOnly(events) == SelectSeq(events, LAMBDA e : e.agent = "Formatter")

C4_SameAsWithout(c) ==
  /\ \E all \in EmittedInAll(FormatterOnly(c.consumed), c.upstream) :
       /\ IsPrefix(c.out, all)
       /\ c.rpc = "done" => c.out = all
  /\ c.rpc = "next" => c.out = Emitted(FormatterOnly(c.consumed))

\* C4: consuming an event of another agent than Formatter writes nothing and
\* changes nothing of the relay, and what the relay writes is what it writes
\* for the consumed sequence without the events of other agents.
C4_OtherAgentsDropped ==
  [][\A r \in Reqs :
       /\ (Len(conn'[r].consumed) = Len(conn[r].consumed) + 1
             /\ Last(conn'[r].consumed).agent # "Formatter") =>
            conn'[r] = [conn[r] EXCEPT !.consumed = conn'[r].consumed]
       /\ C4_SameAsWithout(conn'[r])]_vars

C4_Witness ==
  \E r \in Reqs :
    /\ conn[r].rpc = "done"
    /\ Len(conn[r].consumed) = 3
    /\ conn[r].consumed[2].agent = "Researcher"
    /\ conn[r].consumed[1].agent = "Formatter"
    /\ conn[r].consumed[3].agent = "Formatter"
    /\ Len(conn[r].out) = 3

\* C8: a generation call that rejects or brings no stream is answered 500;
\* a 500 is a JSON body with no relay started and nothing ever written; an
\* event-stream response, once returned, stays the response, and an upstream
\* failure after it is written to the stream.
C8_FailureBeforeStreaming ==
  [][\A r \in Reqs :
       /\ result'[r] \in {"rejected", "nostream"} =>
            response'[r].status = 500 /\ gpc'[r] = "returned"
       /\ response'[r].status = 500 =>
            response'[r].kind = "json" /\ conn'[r] = NoConn
       /\ conn'[r] # NoConn => response'[r] = StreamResponse
       /\ response[r].kind = "sse" => response'[r] = response[r]
       /\ (conn'[r].upstream = "threw" /\ conn'[r].rpc = "done") =>
            /\ response'[r] = StreamResponse
            /\ \E i \in 1..Len(conn'[r].out) : conn'[r].out[i].ev = "error"]_vars

C8_Witness ==
  \E r \in Reqs :
    /\ result[r] = "rejected"
    /\ response[r].status = 500
    /\ call[r].issued
    /\ call[r].uploadedFiles = << <<"a">> >>

ErrorClassified(m) == m.type = "error" \/ m.ev = "error"

ConnState(c) ==
  IF c.writer = "closed" THEN "COMPLETE"
  ELSE IF \E i \in 1..Len(c.out) : ErrorClassified(c.out[i]) THEN "ERROR"
  ELSE "STREAMING"

\* C9: a connection goes from STREAMING to COMPLETE, or from STREAMING to
\* ERROR to COMPLETE; at most one error-classified message is written, and
\* once it is written no markdown message is written and no upstream event
\* is consumed.
C9_Transitions ==
  [][\A r \in Reqs :
       LET c == conn[r]
           d == conn'[r]
       IN /\ <<ConnState(c), ConnState(d)>> \in
               {<<"STREAMING", "STREAMING">>, <<"STREAMING", "ERROR">>,
                <<"STREAMING", "COMPLETE">>, <<"ERROR", "ERROR">>,
                <<"ERROR", "COMPLETE">>, <<"COMPLETE", "COMPLETE">>}
          /\ Cardinality({i \in 1..Len(d.out) : ErrorClassified(d.out[i])}) <= 1
          /\ \A i, j \in 1..Len(d.out) :
               (ErrorClassified(d.out[i]) /\ i < j) => d.out[j].type # "markdown"
          /\ (\E i \in 1..Len(c.out) : ErrorClassified(c.out[i])) =>
               /\ d.consumed = c.consumed
               /\ d.upstream = c.upstream
               /\ \A i \in 1..Len(d.todo) : d.todo[i].type # "markdown"]_vars

C9_Witness ==
  \E r \in Reqs :
    /\ ConnState(conn[r]) = "COMPLETE"
    /\ conn[r].out = <<Markdown(Q1), Busy, CompleteMarker>>

\* A required parameter the request does not give: absent, or empty.
Missing(v) == v \in {Null, ""}

AnyMissing(q) ==
  Missing(q.questionHeader) \/ Missing(q.questionDescription) \/ Missing(q.apiKey)

\* C5: a request that misses a required parameter is answered 400 with each
\* of the three flagged as received or not, before anything else is done: no
\* generation call, no file tested or deleted.
C5_MissingParameter ==
  \A r \in Reqs :
    (gpc[r] # "idle" /\ AnyMissing(req[r])) =>
      /\ gpc[r] \in {"start", "returned"}
      /\ call[r] = NoCall
      /\ result[r] = "pending"
      /\ fsLog[r] = NoLog
      /\ conn[r] = NoConn
      /\ gpc[r] = "returned" =>
           /\ response[r].status = 400
           /\ response[r].kind = "json"
           /\ response[r].received.questionHeader = ~Missing(req[r].questionHeader)
           /\ response[r].received.questionDescription =
                ~Missing(req[r].questionDescription)
           /\ response[r].received.apiKey = ~Missing(req[r].apiKey)

C5_Witness ==
  \E r \in Reqs :
    /\ gpc[r] = "returned"
    /\ response[r].status = 400
    /\ req[r].questionHeader = "v"
    /\ req[r].questionDescription = ""
    /\ req[r].apiKey = Null
    /\ req[r].uploadedFiles = <<"a">>
    /\ ScratchA \in DOMAIN files

\* The declared names that stand for a file of the scratch directory.
DeclaredInScratch(q, fs) ==
  SelectSeq(DeclaredFiles(q),
            LAMBDA f : /\ InScratch(PathJoin(TempDir, f))
                       /\ PathJoin(TempDir, f) \in DOMAIN fs)

\* C6: a request with its required parameters and a non-empty declared list
\* of which no file is in the scratch directory is answered 400 "not found",
\* without a generation call and with the disk left as it is.
C6_NoneInScratch ==
  [][\A r \in Reqs :
       (/\ gpc[r] = "start"
        /\ gpc'[r] # "start"
        /\ ~AnyMissing(req[r])
        /\ DeclaredFiles(req[r]) # <<>>
        /\ DeclaredInScratch(req[r], files) = <<>>) =>
         /\ gpc'[r] = "returned"
         /\ response'[r] = NotFoundResponse
         /\ call'[r] = NoCall
         /\ files' = files]_vars

\* C7: the files passed to the generation service are the declared names that
\* are files of the scratch directory, in the declared order; the request
\* goes on when there is one, and when none is declared.
C7_ExistingSubset ==
  [][\A r \in Reqs :
       (gpc[r] = "start" /\ gpc'[r] # "start" /\ ~AnyMissing(req[r])) =>
         /\ call'[r].issued =>
              call'[r].uploadedFiles = DeclaredInScratch(req[r], files)
         /\ (DeclaredFiles(req[r]) = <<>>
               \/ DeclaredInScratch(req[r], files) # <<>>) =>
              call'[r].issued /\ gpc'[r] = "awaiting"]_vars

\* C10: when the upload is answered 200, each file named in the answer holds
\* the bytes of the part it was made for.
C10_EachPartPersisted ==
  (ppc = "returned" /\ postResponse.status = 200) =>
    /\ Len(postResponse.uploadedFiles) = Len(stored)
    /\ \A i \in 1..Len(stored) :
         LET path == Append(TempDir, postResponse.uploadedFiles[i]) IN
         path \in DOMAIN files /\ files[path] = stored[i]

\* C11: once the generation call is issued and the response returned, none of
\* the files the call was given is left on disk, however the call came back.
C11_FilesRemoved ==
  \A r \in Reqs :
    (gpc[r] = "returned" /\ call[r].issued) =>
      \A i \in 1..Len(call[r].uploadedFiles) :
        PathJoin(TempDir, call[r].uploadedFiles[i]) \notin DOMAIN files

\* The content the relay works on for a Formatter event, read off what the
\* relay does next.
ContentUsed(c, content) ==
  c.todo = IF IsJsonContent(CleanContent(content))
           THEN <<Busy, CompleteMarker, CloseOp>>
           ELSE <<Markdown(CleanContent(content))>>

Consumes(c, d) ==
  /\ Len(d.consumed) = Len(c.consumed) + 1
  /\ Last(d.consumed).agent = "Formatter"

\* C12 as stated: analysisResult whenever the event has one, else the content
\* of the first message, else the serialization of the event.
C12_ResultFirst ==
  [][\A r \in Reqs :
       Consumes(conn[r], conn'[r]) =>
         LET e == Last(conn'[r].consumed) IN
         ContentUsed(conn'[r],
                     IF e.hasResult /\ e.analysisResult # <<>>
                     THEN e.analysisResult
                     ELSE IF e.hasMessages /\ Len(e.messages) > 0
                             /\ e.messages[1] # <<>>
                          THEN e.messages[1]
                          ELSE Stringify(e))]_vars

\* C12 as amended: the content of the first message decides first. When it
\* is there and not empty, analysisResult is taken if the event has one, else
\* that content; when it is not, the serialization of the event is taken,
\* whether or not the event has an analysisResult.
C12_MessagesFirst ==
  [][\A r \in Reqs :
       Consumes(conn[r], conn'[r]) =>
         LET e == Last(conn'[r].consumed) IN
         ContentUsed(conn'[r],
                     IF e.hasMessages /\ Len(e.messages) > 0
                        /\ e.messages[1] # <<>>
                     THEN IF e.hasResult /\ e.analysisResult # <<>>
                          THEN e.analysisResult
                          ELSE e.messages[1]
                     ELSE Stringify(e))]_vars

C12_Witness ==
  \E r \in Reqs :
    /\ Len(conn[r].consumed) = 2
    /\ conn[r].consumed[1] = Event("Formatter", TRUE, <<Q1>>, TRUE, Q2)
    /\ conn[r].consumed[2] = Event("Formatter", FALSE, <<>>, TRUE, Q2)
    /\ conn[r].out = <<Markdown(Q2), Busy, CompleteMarker>>

\* C19: every path the handler tests or unlinks, and every file it passes to
\* the generation service, is a file of the scratch directory.
C19_ConfinedToScratch ==
  \A r \in Reqs :
    /\ \A p \in fsLog[r].tested \cup fsLog[r].unlinked : InScratch(p)
    /\ call[r].issued =>
         \A i \in 1..Len(call[r].uploadedFiles) :
           InScratch(PathJoin(TempDir, call[r].uploadedFiles[i]))

\* The step in which request r gets the result of the generation call and
\* goes through the cleanup loop.
CleanupStep(r) ==
  /\ gpc[r] = "awaiting"
  /\ gpc'[r] = "returned"
  /\ result'[r] \in {"stream", "nostream"}

\* C14: the cleanup is best effort per file. A file of the list that is
\* absent is passed over and nothing else changes for it; an unlink that
\* throws stops nothing: every file of the list is still tested, every file
\* whose unlink did not throw is gone, files outside the list are untouched,
\* and the response is the event stream or the no-stream 500 according to
\* the result of the call alone.
C14_BestEffortCleanup ==
  [][\A r \in Reqs :
       CleanupStep(r) =>
         LET paths == Paths(uploadedFiles[r]) IN
         /\ paths \subseteq fsLog'[r].tested
         /\ fsLog'[r].failed \subseteq fsLog'[r].unlinked
         /\ \A p \in paths : p \notin fsLog'[r].failed => p \notin DOMAIN files'
         /\ \A p \in DOMAIN files : p \notin paths =>
              p \in DOMAIN files' /\ files'[p] = files[p]
         /\ DOMAIN files' \subseteq DOMAIN files
         /\ (\A p \in paths : ~ExistsSync(files, p)) =>
              files' = files /\ fsLog'[r].unlinked = fsLog[r].unlinked
                             /\ fsLog'[r].failed = fsLog[r].failed
         /\ response'[r] = IF result'[r] = "stream"
                           THEN StreamResponse ELSE NoStreamResponse]_vars

\* The unlink of the first file threw and the file is still there, the second
\* file was deleted all the same, and the request got its response.
C14_Witness ==
  \E r \in Reqs :
    /\ gpc[r] = "returned"
    /\ call[r].issued
    /\ call[r].uploadedFiles = << <<"a">>, <<"b">> >>
    /\ fsLog[r].failed = {ScratchA}
    /\ ScratchA \in DOMAIN files
    /\ ScratchB \in fsLog[r].unlinked
    /\ ScratchB \notin DOMAIN files
    /\ response[r] = NoStreamResponse

\* The paths of the files request r gave to the generation call.
CallPaths(r) ==
  IF call[r].issued THEN Paths(call[r].uploadedFiles) ELSE {}

\* C13 as stated: while the generation call of a request is in flight, every
\* file it was given is on disk.
C13_RemainInFlight ==
  \A r \in Reqs :
    gpc[r] = "awaiting" => \A p \in CallPaths(r) : ExistsSync(files, p)

\* C13 as amended: every file given to the generation call is on disk in the
\* step that issues the call; while the call is in flight such a file can
\* go, and then only in the cleanup step of another GET request that names
\* it; an upload never removes a file.
C13_ExistAtIssue ==
  [][\A r \in Reqs :
       /\ (~call[r].issued /\ call'[r].issued) =>
            \A p \in Paths(call'[r].uploadedFiles) : ExistsSync(files', p)
       /\ (gpc[r] = "awaiting" /\ gpc'[r] = "awaiting") =>
            \A p \in CallPaths(r) :
              (ExistsSync(files, p) /\ ~ExistsSync(files', p)) =>
                \E o \in Reqs \ {r} :
                  /\ CleanupStep(o)
                  /\ p \in Paths(uploadedFiles[o])]_vars

\* Request 1 is waiting for a call that was given temp/a, and the cleanup of
\* request 2 has deleted temp/a.
C13_Witness ==
  /\ gpc[1] = "awaiting"
  /\ ScratchA \in CallPaths(1)
  /\ gpc[2] = "returned"
  /\ ScratchA \in fsLog[2].unlinked
  /\ ScratchA \notin DOMAIN files

\* C15: once the generation call has returned a stream the handler has
\* returned the event stream response, wherever the relay is: before the
\* first upstream event, blocked on a write, or finished; and no step of the
\* relay or of the client touches the response.
C15_ResponseNotBlocked ==
  \A r \in Reqs :
    /\ result[r] = "stream" =>
         /\ gpc[r] = "returned"
         /\ response[r] = StreamResponse
         /\ conn[r].rpc # "none"
    /\ conn[r].rpc # "none" => result[r] = "stream"

\* The relay is blocked on a write (the client has not read the chunk before
\* it) with further events already consumed, and the response is returned.
C15_Witness ==
  \E r \in Reqs :
    /\ result[r] = "stream"
    /\ response[r] = StreamResponse
    /\ conn[r].rpc = "io"
    /\ conn[r].writer = "open"
    /\ conn[r].todo # <<>>
    /\ Head(conn[r].todo) # CloseOp
    /\ Len(conn[r].out) > conn[r].nread
    /\ conn[r].client = "reading"

\* The relay is in its loop over the upstream sequence.
Streaming(c) ==
  /\ c.rpc \in {"next", "io"}
  /\ c.phase = "try"
  /\ c.after = "loop"
  /\ c.upstream = "open"

\* C16 as stated: the relay leaves its loop only when the upstream sequence
\* has ended or thrown, or on the short-circuit.
C16_StopsOnlyWithUpstream ==
  \A r \in Reqs :
    (conn[r].rpc # "none" /\ ~Streaming(conn[r])) =>
      \/ conn[r].upstream \in {"ended", "threw"}
      \/ conn[r].consumed # <<>> /\ JsonShaped(Last(conn[r].consumed))

\* C16 as amended: the disconnect itself changes nothing of the relay, which
\* goes on awaiting and consuming upstream events; the relay leaves its loop
\* only when the upstream sequence ends or throws, on the short-circuit, or
\* when a write is rejected, which is what happens to the first write after
\* the disconnect.
C16_StopsOnRejectedWrite ==
  [][\A r \in Reqs :
       /\ (conn[r].client = "reading" /\ conn'[r].client = "gone") =>
            conn'[r] = [conn[r] EXCEPT
                          !.client = "gone",
                          !.writer = IF @ = "open" THEN "errored" ELSE @]
       /\ (conn[r].client = "gone" /\ Streaming(conn[r])
             /\ Len(conn'[r].consumed) = Len(conn[r].consumed) + 1
             /\ ~JsonShaped(Last(conn'[r].consumed))) =>
            Streaming(conn'[r])
       /\ (Streaming(conn[r]) /\ ~Streaming(conn'[r])) =>
            \/ conn'[r].upstream \in {"ended", "threw"}
            \/ /\ Len(conn'[r].consumed) = Len(conn[r].consumed) + 1
               /\ JsonShaped(Last(conn'[r].consumed))
            \/ /\ conn[r].rpc = "io"
               /\ conn[r].writer = "errored"
               /\ conn[r].client = "gone"
               /\ conn'[r].phase = "catch"]_vars

\* The client is gone, the upstream sequence has neither ended nor thrown,
\* events of other agents were consumed, and the write of a markdown message
\* was rejected: the relay is in its catch block.
C16_Witness ==
  \E r \in Reqs :
    /\ conn[r].client = "gone"
    /\ conn[r].upstream = "open"
    /\ conn[r].phase = "catch"
    /\ Len(conn[r].consumed) = 3
    /\ conn[r].consumed[1].agent # "Formatter"
    /\ conn[r].consumed[2].agent # "Formatter"
    /\ conn[r].consumed[3] = Event("Formatter", TRUE, <<Q1>>, FALSE, <<>>)
    /\ conn[r].out = <<>>

\* C18: on every path of the relay the writer is closed exactly once, and no
\* write or close is attempted on a writer that is closed or has failed. The
\* close is the last operation of every path, so a relay that has finished
\* has closed its writer; a relay whose write was rejected does not set out
\* to write the writer's own error to it; nothing is left to do once the
\* writer is closed.
C18_WriterClosedOnce ==
  \A r \in Reqs :
    /\ conn[r].rpc \in {"done", "crashed"} => conn[r].writer = "closed"
    /\ ~(conn[r].rpc = "io" /\ conn[r].todo # <<>>
           /\ Head(conn[r].todo) = ErrorEvent(ErrorMessage(WriterError)))
    /\ conn[r].writer = "closed" => conn[r].todo = <<>>

\* C17: with a finite upstream sequence and a client that keeps reading, a
\* relay that was started eventually ends with the connection closed, on the
\* natural end, on the short-circuit and after an exception of the upstream.
C17_EventuallyClosed ==
  \A r \in Reqs :
    (conn[r].rpc # "none") ~>
      (conn[r].rpc = "done" /\ conn[r].writer = "closed")

\* The upstream sequence has ended, and the relay has written the completion
\* marker to a client that is still reading and closed the writer.
C17_Witness ==
  \E r \in Reqs :
    /\ conn[r].upstream = "ended"
    /\ conn[r].client = "reading"
    /\ conn[r].rpc = "done"
    /\ conn[r].writer = "closed"
    /\ Len(conn[r].consumed) = MaxEvents
    /\ Last(conn[r].out) = CompleteMarker

====
